---- MODULE Spec2Model ----
(***************************************************************************)
(* A model of RoutePlanner (src/utils/route_planner_class.py): the route   *)
(* enumeration, the two de-duplication policies, the progress reports, the *)
(* waypoint filter and the polyline extraction, over a small road atlas.   *)
(***************************************************************************)
EXTENDS Integers, Sequences, FiniteSets, TLC

\* ------------------------------------------------------------- bounds
\* the number of directed node pairs of the atlas that carry edges
MaxEdges == 6
\* the number of compute_routes_* calls made on one planner
MaxCalls == 2
\* the number of entries of a middle_points list
MaxWaypoints == 2
\* the number of filter_routes_by_point calls made on one planner
MaxFilters == 1
\* the number of routes of a RouteSet handed to the polyline extraction
MaxRoutes == 2
\* the number of jobs asked of the service
MaxJobs == 2

\* ------------------------------------------------------------- the atlas
\* Node identifiers.  graph.nodes iterates them in ascending order.
Node == {1, 2, 3, 4}

\* graph.nodes[n]['y'], graph.nodes[n]['x'] as <<lat, lon>>.  Node 5 lies
\* outside the city, on the line through 1 and 2; only the statistics see it.
Coord(n) ==
    CASE n = 1 -> <<0, 0>>
      [] n = 2 -> <<0, 1>>
      [] n = 3 -> <<1, 1>>
      [] n = 4 -> <<1, 0>>
      [] n = 5 -> <<0, 2>>

Pairs == {p \in Node \X Node : p[1] # p[2]}

NoGeometry == <<>>
NoLength == -1

\* The edge records of the ordered pair (u, v), in key order (key 0 first):
\* what graph.get_edge_data(u, v) holds when the pair has edges.  A geometry is
\* a LineString's coords, a sequence of <<lon, lat>> points.
EdgeRecords(u, v) ==
    CASE <<u, v>> = <<1, 2>> ->
            \* two parallel edges, the first without geometry
            << [geometry |-> NoGeometry, length |-> 100],
               [geometry |-> << <<0, 0>>, <<2, 5>>, <<1, 0>> >>, length |-> 150] >>
      [] <<u, v>> = <<2, 3>> ->
            \* a curve that starts and ends at the node coordinates
            << [geometry |-> << <<1, 0>>, <<3, 0>>, <<3, 0>>, <<1, 1>> >>,
                length |-> 150] >>
      [] <<u, v>> = <<1, 4>> ->
            \* two parallel edges, both with a geometry
            << [geometry |-> << <<0, 0>>, <<5, 2>>, <<0, 1>> >>, length |-> NoLength],
               [geometry |-> << <<0, 0>>, <<0, 1>> >>, length |-> 100] >>
      [] <<u, v>> = <<4, 3>> ->
            \* a geometry that does not touch the node coordinates
            << [geometry |-> << <<5, 5>>, <<6, 5>> >>, length |-> 100] >>
      [] OTHER ->
            << [geometry |-> NoGeometry, length |-> IF u < v THEN 100 ELSE NoLength] >>

\* ------------------------------------------------------------- helpers
Range(s) == {s[i] : i \in 1..Len(s)}

Min(S) == CHOOSE x \in S : \A y \in S : x <= y

RECURSIVE SortedSeq(_)
\* the elements of a set of integers in ascending order
SortedSeq(S) == IF S = {} THEN <<>> ELSE <<Min(S)>> \o SortedSeq(S \ {Min(S)})

RECURSIVE Flatten(_)
\* the concatenation of a sequence of sequences
Flatten(ss) == IF ss = <<>> THEN <<>> ELSE Head(ss) \o Flatten(Tail(ss))

RECURSIVE Repeat(_, _)
Repeat(x, n) == IF n = 0 THEN <<>> ELSE <<x>> \o Repeat(x, n - 1)

RECURSIVE Injections(_)
\* the sequences over S without a repeated element
Injections(S) ==
    {<<>>} \cup UNION {{<<x>> \o q : q \in Injections(S \ {x})} : x \in S}

\* ------------------------------------------------------------- the graph
\* self.graph = None
NoGraph == [loaded |-> FALSE, nodes |-> {}, pairs |-> {}]

\* `not self.graph`: None, and a networkx graph without nodes, are falsy
Falsy(g) == ~g.loaded \/ g.nodes = {}

\* graph.nodes, in iteration order
NodeSeq(g) == SortedSeq(g.nodes)

\* graph.get_edge_data(u, v): the records of the pair, <<>> standing for None
GetEdgeData(g, u, v) == IF <<u, v>> \in g.pairs THEN EdgeRecords(u, v) ELSE <<>>

\* G.edges(u, keys=True) as the sequence of the edges' heads: neighbours in
\* adjacency order, one entry per parallel edge
OutEdges(g, u) ==
    LET nbrs == NodeSeq(g)
    IN  Flatten([i \in 1..Len(nbrs) |-> Repeat(nbrs[i], Len(GetEdgeData(g, u, nbrs[i])))])

\* the road network a fetch returns for a region: the part of the world inside
\* it, and nothing (an exception, or an empty graph) when no node is inside
InducedGraph(w, region) ==
    LET ns == {n \in w.nodes : Coord(n) \in region}
    IN  IF ns = {} THEN NoGraph
        ELSE [loaded |-> TRUE, nodes |-> ns,
              pairs |-> {p \in w.pairs : p[1] \in ns /\ p[2] \in ns}]

\* the great-circle (haversine) distance of two <<lat, lon>> points of the
\* atlas, in whole metres on a sphere of radius 6371009 m, by which the
\* nearest-node search measures a graph that is not projected: a degree of
\* latitude is as long as a degree of longitude on the equator, and a degree
\* of longitude on the first parallel is shorter
Haversine(c, d) ==
    LET dlat == IF c[1] >= d[1] THEN c[1] - d[1] ELSE d[1] - c[1]
        dlon == IF c[2] >= d[2] THEN c[2] - d[2] ELSE d[2] - c[2]
    IN  CASE dlat = 0 /\ c[1] = 0 -> 111195 * dlon
          [] dlat = 0 /\ c[1] # 0 /\ dlon = 0 -> 0
          [] dlat = 0 /\ c[1] # 0 /\ dlon = 1 -> 111178
          [] dlat = 0 /\ c[1] # 0 /\ dlon = 2 -> 222356
          [] <<dlat, dlon>> = <<1, 0>> -> 111195
          [] <<dlat, dlon>> = <<1, 1>> -> 157250
          [] <<dlat, dlon>> = <<1, 2>> -> 248630

\* the order in which the nearest-node search prefers nodes that are equally
\* far, which the library leaves open
VARIABLE tie_order

\* the two orders that give either node of a tie of two
TieOrders == {<<1, 2, 3, 4, 5>>, <<5, 4, 3, 2, 1>>}

\* ox.distance.nearest_nodes(graph, X, Y): X is the longitude, Y the latitude.
\* Of the nodes at the least distance it returns the one tie_order prefers.
NearestNodes(g, X, Y) ==
    LET d(n) == Haversine(Coord(n), <<Y, X>>)
        best == {n \in g.nodes : \A m \in g.nodes : d(n) <= d(m)}
        rank(n) == CHOOSE i \in 1..Len(tie_order) : tie_order[i] = n
    IN  CHOOSE n \in best : \A m \in best : rank(n) <= rank(m)

\* ------------------------------------------------------------- networkx
RECURSIVE Visit(_, _, _, _, _)
\* nx.all_simple_paths below `path`: the edges es[i..] of the path's last node
\* are tried in order; an edge to a node of the path is skipped, an edge to
\* the target yields a path, any other edge is descended into.
Visit(g, path, t, es, i) ==
    IF i > Len(es) THEN <<>>
    ELSE LET v == es[i]
             here == IF v \in Range(path) THEN <<>>
                     ELSE IF v = t THEN << Append(path, v) >>
                     ELSE Visit(g, Append(path, v), t, OutEdges(g, v), 1)
         IN  here \o Visit(g, path, t, es, i + 1)

\* the release of networkx the program runs on, which the repository leaves
\* open: one of those up to 3.1, or one from 3.2 on
VARIABLE networkx

Releases == {"3.1", "3.2"}

\* list(nx.all_simple_paths(graph, source=s, target=t)), in generation order:
\* one entry per edge path, so a node path over parallel edges repeats.  When
\* s = t the releases up to 3.1 yield no path and those from 3.2 the path [s].
\* It never raises NetworkXNoPath.
AllSimplePaths(g, s, t) ==
    IF s # t THEN Visit(g, <<s>>, t, OutEdges(g, s), 1)
    ELSE IF networkx = "3.1" THEN <<>>
    ELSE << <<s>> >>

\* ------------------------------------------------------------- the planner
VARIABLES
    world,             \* the road network the graph provider draws from
    start_location,    \* self.start_location, <<lat, lon>>
    end_location,      \* self.end_location, <<lat, lon>> or NoLocation
    radius_km,         \* self.radius_km, 0 for None
    graph,             \* self.graph
    unique_routes,     \* self.unique_routes
    job_id,            \* self.job_id, 0 for None
    progress_tracker,  \* self.progress_tracker is set
    emitted,           \* the snapshots handed to the tracker by the latest computation
    calls,             \* the compute_routes_* calls made so far
    filters,           \* the filter_routes_by_point calls made so far
    previous_routes,   \* self.unique_routes as the latest operation found it
    op,                \* the latest operation
    raised,            \* the exception the latest operation raised, if any
    returned,          \* the polylines the latest operation returned
    jobs_collection,   \* the documents of the job_status collection
    routes_collection, \* the documents of the result_routes collection
    executor,          \* the tasks of the thread pool, by job
    handlers,          \* the threads that serve the /start_job requests, by job
    responses          \* the answers of start_job, by job

vars == <<networkx, tie_order, world, start_location, end_location, radius_km, graph, unique_routes,
          job_id, progress_tracker, emitted, calls, filters, previous_routes, op, raised, returned,
          jobs_collection, routes_collection, executor, handlers, responses>>

\* the web service around the planner, which no method of the planner touches
service == <<jobs_collection, routes_collection, executor, handlers, responses>>

\* the planner, which no step of the web service touches here
planner == <<networkx, tie_order, world, start_location, end_location, radius_km, graph, unique_routes,
             job_id, progress_tracker, emitted, calls, filters, previous_routes, op,
             raised, returned>>

config == <<networkx, tie_order, world, start_location, end_location, radius_km>>

NoLocation == <<>>

GridPoints == {Coord(n) : n \in Node}

\* the places a planner is built for: the points of two nodes
Locations == {Coord(1), Coord(3)}

\* shapely polygons by the points they cover; `given` is the polygon's truth
\* value (None and the empty polygon are falsy).  The polygons: one around no
\* node, one around node 1, one around the other nodes, one around them all.
Polygons ==
    {[given |-> FALSE, covers |-> {}]}
        \cup {[given |-> TRUE, covers |-> c] :
                 c \in {{}, {Coord(1)}, GridPoints \ {Coord(1)}, GridPoints}}

NoError == [type |-> "none", waypoint |-> 0]
Error(t) == [type |-> t, waypoint |-> 0]

\* UpdateProgress with a report only while routes remain
UpdateProgressWhileRemaining(st, completed_routes, total_routes) ==
    IF job_id = 0 \/ ~progress_tracker \/ completed_routes = total_routes THEN st
    ELSE [st EXCEPT !.emitted =
            Append(@, [timeRunning |-> completed_routes,
                       timeDuration |-> total_routes])]

\* update_progress: the snapshot (timeRunning, timeDuration) goes to the
\* tracker when both job_id and progress_tracker are set.  timeEstimate is a
\* function of the wall clock and is left out.
UpdateProgress(st, completed_routes, total_routes) ==
    IF job_id = 0 \/ ~progress_tracker THEN st
    ELSE [st EXCEPT !.emitted =
            Append(@, [timeRunning |-> completed_routes,
                       timeDuration |-> total_routes])]

\* tuple(route), the key of the sequence-identity policy
RouteTuple(route) == route

\* frozenset(route), the key of the node-set policy
RouteFrozenset(route) == Range(route)

RECURSIVE AppendEveryRoute(_, _, _)
\* AppendUniqueTuples without its test of seen_routes
AppendEveryRoute(routes, i, st) ==
    IF i > Len(routes) THEN st
    ELSE AppendEveryRoute(routes, i + 1, [st EXCEPT !.unique = Append(@, routes[i])])

RECURSIVE AppendUniqueByNodeSet(_, _, _)
\* AppendUniqueTuples with frozenset(route) for tuple(route)
AppendUniqueByNodeSet(routes, i, st) ==
    IF i > Len(routes) THEN st
    ELSE IF RouteFrozenset(routes[i]) \in st.seen
         THEN AppendUniqueByNodeSet(routes, i + 1, st)
         ELSE AppendUniqueByNodeSet(routes, i + 1,
                [st EXCEPT !.unique = Append(@, routes[i]),
                           !.seen = @ \cup {RouteFrozenset(routes[i])}])

RECURSIVE AppendUniqueTuples(_, _, _)
\* for route in routes: append it unless tuple(route) was seen
AppendUniqueTuples(routes, i, st) ==
    IF i > Len(routes) THEN st
    ELSE IF RouteTuple(routes[i]) \in st.seen
         THEN AppendUniqueTuples(routes, i + 1, st)
         ELSE AppendUniqueTuples(routes, i + 1,
                [st EXCEPT !.unique = Append(@, routes[i]),
                           !.seen = @ \cup {RouteTuple(routes[i])}])

RECURSIVE AppendUniqueBySequence(_, _, _)
\* AppendUniqueSets with tuple(route) for frozenset(route)
AppendUniqueBySequence(routes, i, st) ==
    IF i > Len(routes) THEN st
    ELSE IF RouteTuple(routes[i]) \in st.seen
         THEN AppendUniqueBySequence(routes, i + 1, st)
         ELSE AppendUniqueBySequence(routes, i + 1,
                [st EXCEPT !.unique = Append(@, routes[i]),
                           !.seen = @ \cup {RouteTuple(routes[i])}])

RECURSIVE AppendUniqueByLength(_, _, _)
\* AppendUniqueSets with len(route) for frozenset(route)
AppendUniqueByLength(routes, i, st) ==
    IF i > Len(routes) THEN st
    ELSE IF Len(routes[i]) \in st.seen
         THEN AppendUniqueByLength(routes, i + 1, st)
         ELSE AppendUniqueByLength(routes, i + 1,
                [st EXCEPT !.unique = Append(@, routes[i]),
                           !.seen = @ \cup {Len(routes[i])}])

RECURSIVE AppendUniqueSets(_, _, _)
\* for route in all_routes: append it unless frozenset(route) was seen
AppendUniqueSets(routes, i, st) ==
    IF i > Len(routes) THEN st
    ELSE IF RouteFrozenset(routes[i]) \in st.seen
         THEN AppendUniqueSets(routes, i + 1, st)
         ELSE AppendUniqueSets(routes, i + 1,
                [st EXCEPT !.unique = Append(@, routes[i]),
                           !.seen = @ \cup {RouteFrozenset(routes[i])}])

RECURSIVE TargetLoop(_, _, _, _, _)
\* for target_node in self.graph.nodes: the routes to every node but the
\* start node, then (finally:) one more completed node and a progress report
TargetLoop(g, start_node, total_nodes, k, st) ==
    IF k > Cardinality(g.nodes) THEN st
    ELSE LET target_node == NodeSeq(g)[k] IN
         IF target_node = start_node
         THEN TargetLoop(g, start_node, total_nodes, k + 1, st)
         ELSE LET routes == AllSimplePaths(g, start_node, target_node)
                  st1 == AppendUniqueTuples(routes, 1, st)
                  st2 == [st1 EXCEPT !.completed = @ + 1]
              IN  TargetLoop(g, start_node, total_nodes, k + 1,
                             UpdateProgress(st2, st2.completed, total_nodes))

\* the locals of a computation as it starts
Locals(routes, completed_nodes) ==
    [unique |-> routes, seen |-> {}, completed |-> completed_nodes, emitted |-> <<>>]

\* fetch_graph_radius, which raises before it fetches: a ValueError without a
\* radius, and otherwise a NameError, TRUNCATE_EDGE being no name of the module
FetchGraphRadiusError == IF radius_km = 0 THEN "ValueError" ELSE "NameError"

\* self.graph after fetch_graph_polygon: what ox.graph_from_polygon returns,
\* and None when the fetch fails, every failure being caught
GraphFromPolygon(polygon) ==
    IF polygon.given THEN InducedGraph(world, polygon.covers) ELSE NoGraph

\* an operation that ends by raising, after the assignments given
Raises(name, t, g, routes) ==
    /\ op' = name
    /\ previous_routes' = unique_routes
    /\ raised' = Error(t)
    /\ graph' = g
    /\ unique_routes' = routes
    /\ emitted' = <<>>
    /\ returned' = <<>>
    /\ UNCHANGED <<service, config, job_id, progress_tracker>>

\* a computation that ends normally with the locals st
Computes(name, g, st) ==
    /\ op' = name
    /\ previous_routes' = unique_routes
    /\ raised' = NoError
    /\ graph' = g
    /\ unique_routes' = st.unique
    /\ emitted' = st.emitted
    /\ returned' = <<>>
    /\ UNCHANGED <<service, config, job_id, progress_tracker>>

StartNode(g) == NearestNodes(g, start_location[2], start_location[1])
EndNode(g) == NearestNodes(g, end_location[2], end_location[1])

\* set_progress_tracker(job_id, progress_tracker)
SetProgressTracker(j, t) ==
    /\ job_id' = j
    /\ progress_tracker' = t
    /\ op' = "set_progress_tracker"
    /\ previous_routes' = unique_routes
    /\ raised' = NoError
    /\ returned' = <<>>
    /\ UNCHANGED <<service, config, graph, unique_routes, emitted, calls, filters>>

\* fetch_graph_polygon(polygon): self.graph becomes the graph of the polygon,
\* or None; nothing is raised and the RouteSet stays
FetchGraphPolygon(polygon) ==
    /\ op' = "fetch_graph_polygon"
    /\ previous_routes' = unique_routes
    /\ raised' = NoError
    /\ returned' = <<>>
    /\ graph' = GraphFromPolygon(polygon)
    /\ UNCHANGED <<service, config, unique_routes, job_id, progress_tracker, emitted,
                   calls, filters>>

ComputeRoutesStartRadius ==
    /\ calls < MaxCalls
    /\ calls' = calls + 1
    /\ UNCHANGED filters
    /\ LET name == "compute_routes_start_radius" IN
       IF radius_km = 0 THEN Raises(name, "ValueError", graph, unique_routes)
       ELSE IF Falsy(graph)
            THEN Raises(name, FetchGraphRadiusError, graph, unique_routes)
       ELSE Computes(name, graph,
                TargetLoop(graph, StartNode(graph), Cardinality(graph.nodes), 1,
                           Locals(<<>>, 0)))

ComputeRoutesStartEndRadius ==
    /\ calls < MaxCalls
    /\ calls' = calls + 1
    /\ UNCHANGED filters
    /\ LET name == "compute_routes_start_end_radius" IN
       IF end_location = NoLocation
       THEN Raises(name, "ValueError", graph, unique_routes)
       ELSE IF Falsy(graph)
            THEN Raises(name, FetchGraphRadiusError, graph, unique_routes)
       ELSE LET all_routes == AllSimplePaths(graph, StartNode(graph), EndNode(graph))
                st == UpdateProgress(Locals(unique_routes, 0), 1, 1)
            IN  Computes(name, graph, AppendUniqueSets(all_routes, 1, st))

ComputeRoutesStartPolygon(polygon) ==
    /\ calls < MaxCalls
    /\ calls' = calls + 1
    /\ UNCHANGED filters
    /\ LET name == "compute_routes_start_polygon"
           g == GraphFromPolygon(polygon)
       IN  IF ~polygon.given THEN Raises(name, "ValueError", graph, unique_routes)
           ELSE IF Falsy(g) THEN Raises(name, "ValueError", NoGraph, unique_routes)
           ELSE Computes(name, g,
                    TargetLoop(g, StartNode(g), Cardinality(g.nodes), 1,
                               Locals(unique_routes, 1)))

ComputeRoutesStartEndPolygon(polygon) ==
    /\ calls < MaxCalls
    /\ calls' = calls + 1
    /\ UNCHANGED filters
    /\ LET name == "compute_routes_start_end_polygon"
           g == GraphFromPolygon(polygon)
       IN  IF end_location = NoLocation
           THEN Raises(name, "ValueError", graph, unique_routes)
           ELSE IF Falsy(g) THEN Raises(name, "LibraryError", NoGraph, unique_routes)
           ELSE LET all_routes == AllSimplePaths(g, StartNode(g), EndNode(g))
                    st == UpdateProgress(Locals(unique_routes, 0), 1, 1)
                IN  Computes(name, g, AppendUniqueSets(all_routes, 1, st))

\* ------------------------------------------------------------- polylines
\* the (lon, lat) points of a geometry as (lat, lon) points
LatLon(points) == [i \in 1..Len(points) |-> <<points[i][2], points[i][1]>>]

\* the edge (u, v) takes its coordinates from the geometry of the first edge
\* record, edge_data[0]
HasGeometry(edge_data) == edge_data # <<>> /\ edge_data[1].geometry # NoGeometry

\* the coordinates one pair (u, v) of a route adds to path_coords
SegmentCoords(g, u, v) ==
    LET edge_data == GetEdgeData(g, u, v) IN
    IF HasGeometry(edge_data) THEN LatLon(edge_data[1].geometry)
    ELSE << Coord(u), Coord(v) >>

\* path_coords of a route
PathCoords(g, route) ==
    Flatten([i \in 1..(Len(route) - 1) |-> SegmentCoords(g, route[i], route[i + 1])])

RECURSIVE RemoveConsecutive(_, _, _)
\* for coord in path_coords[1:]: append it unless it equals cleaned_coords[-1]
RemoveConsecutive(path_coords, i, cleaned_coords) ==
    IF i > Len(path_coords) THEN cleaned_coords
    ELSE IF path_coords[i] # cleaned_coords[Len(cleaned_coords)]
         THEN RemoveConsecutive(path_coords, i + 1, Append(cleaned_coords, path_coords[i]))
         ELSE RemoveConsecutive(path_coords, i + 1, cleaned_coords)

\* RoutePolyline with cleaned_coords = path_coords[:1] for [path_coords[0]]
RoutePolylineSliced(g, route) ==
    LET path_coords == PathCoords(g, route) IN
    IF \E i \in 1..(Len(route) - 1) :
          /\ ~HasGeometry(GetEdgeData(g, route[i], route[i + 1]))
          /\ ~({route[i], route[i + 1]} \subseteq g.nodes)
    THEN [error |-> "KeyError", polyline |-> <<>>]
    ELSE IF path_coords = <<>> THEN [error |-> "none", polyline |-> <<>>]
    ELSE [error |-> "none",
          polyline |-> RemoveConsecutive(path_coords, 2, << path_coords[1] >>)]

\* RoutePolyline without the removal of consecutive duplicates
RoutePolylineUncleaned(g, route) ==
    LET path_coords == PathCoords(g, route) IN
    IF \E i \in 1..(Len(route) - 1) :
          /\ ~HasGeometry(GetEdgeData(g, route[i], route[i + 1]))
          /\ ~({route[i], route[i + 1]} \subseteq g.nodes)
    THEN [error |-> "KeyError", polyline |-> <<>>]
    ELSE IF path_coords = <<>> THEN [error |-> "IndexError", polyline |-> <<>>]
    ELSE [error |-> "none", polyline |-> path_coords]

\* the body of the loop over the routes: the polyline of one route, or the
\* exception that stops the extraction: graph.nodes[u] of a node the graph
\* does not hold (KeyError), path_coords[0] of an empty list (IndexError)
RoutePolyline(g, route) ==
    LET path_coords == PathCoords(g, route) IN
    IF \E i \in 1..(Len(route) - 1) :
          /\ ~HasGeometry(GetEdgeData(g, route[i], route[i + 1]))
          /\ ~({route[i], route[i + 1]} \subseteq g.nodes)
    THEN [error |-> "KeyError", polyline |-> <<>>]
    ELSE IF path_coords = <<>> THEN [error |-> "IndexError", polyline |-> <<>>]
    ELSE [error |-> "none",
          polyline |-> RemoveConsecutive(path_coords, 2, << path_coords[1] >>)]

\* get_route_polylines: the exception it raises and the list it returns
RoutePolylines(g, routes) ==
    IF Falsy(g) THEN [raised |-> Error("ValueError"), returned |-> <<>>]
    ELSE LET each == [i \in 1..Len(routes) |-> RoutePolyline(g, routes[i])]
             failed == {i \in 1..Len(routes) : each[i].error # "none"}
         IN  IF failed # {}
             THEN [raised |-> Error(each[Min(failed)].error), returned |-> <<>>]
             ELSE [raised |-> NoError,
                   returned |-> [i \in 1..Len(routes) |->
                                   [route_id |-> i, polyline |-> each[i].polyline]]]

GetRoutePolylines ==
    /\ op' = "get_route_polylines"
    /\ previous_routes' = unique_routes
    /\ LET result == RoutePolylines(graph, unique_routes)
       IN  raised' = result.raised /\ returned' = result.returned
    /\ UNCHANGED <<service, config, graph, unique_routes, job_id, progress_tracker, emitted, calls, filters>>

\* ------------------------------------------------------------- the filter
\* a dictionary key that is absent
Missing == -1

\* the entries a middle_points list may hold: dictionaries with or without
\* their 'latitude' and 'longitude' keys
Waypoints ==
    {[latitude |-> Coord(n)[1], longitude |-> Coord(n)[2]] : n \in {2, 3, 4}}
        \cup {[latitude |-> Missing, longitude |-> 1],
              [latitude |-> 1, longitude |-> Missing]}

WellFormed(point) == point.latitude # Missing /\ point.longitude # Missing

RECURSIVE SeqsUpTo(_, _)
\* the sequences over S of length at most n
SeqsUpTo(S, n) ==
    IF n = 0 THEN {<<>>}
    ELSE SeqsUpTo(S, n - 1)
            \cup {Append(q, x) : q \in {r \in SeqsUpTo(S, n - 1) : Len(r) = n - 1}, x \in S}

\* the arguments of filter_routes_by_point: lists, and a value that is no list
MiddlePoints ==
    {[is_list |-> TRUE, points |-> q] : q \in SeqsUpTo(Waypoints, MaxWaypoints)}
        \cup {[is_list |-> FALSE, points |-> <<>>]}

\* InvalidPoints with a test of the 'latitude' key alone
InvalidLatitudes(points) == {i \in 1..Len(points) : points[i].latitude = Missing}

\* the entries that the validation loop rejects
InvalidPoints(points) == {i \in 1..Len(points) : ~WellFormed(points[i])}

\* FilteredRoutes with any() for all()
RoutesThroughAny(routes, target_nodes) ==
    SelectSeq(routes, LAMBDA route : \E k \in 1..Len(target_nodes) :
                                        target_nodes[k] \in Range(route))

\* the routes that hold every target node, in their order
FilteredRoutes(routes, target_nodes) ==
    SelectSeq(routes, LAMBDA route : \A k \in 1..Len(target_nodes) :
                                        target_nodes[k] \in Range(route))

FilterRoutesByPoint(middle_points) ==
    /\ filters < MaxFilters
    /\ filters' = filters + 1
    /\ op' = "filter_routes_by_point"
    /\ previous_routes' = unique_routes
    /\ UNCHANGED <<service, config, graph, job_id, progress_tracker, emitted, calls>>
    /\ LET points == middle_points.points
           bad == InvalidPoints(points)
       IN  IF ~middle_points.is_list
           THEN /\ raised' = Error("ValueError")
                /\ returned' = <<>>
                /\ UNCHANGED unique_routes
           ELSE IF bad # {}
           THEN /\ raised' = [type |-> "ValueError", waypoint |-> Min(bad)]
                /\ returned' = <<>>
                /\ UNCHANGED unique_routes
           ELSE IF points # <<>> /\ Falsy(graph)
           THEN /\ raised' = Error("LibraryError")
                /\ returned' = <<>>
                /\ UNCHANGED unique_routes
           ELSE LET target_nodes ==
                        [k \in 1..Len(points) |->
                            NearestNodes(graph, points[k].longitude, points[k].latitude)]
                    filtered_routes == FilteredRoutes(unique_routes, target_nodes)
                    result == RoutePolylines(graph, filtered_routes)
                IN  /\ unique_routes' = filtered_routes
                    /\ raised' = result.raised
                    /\ returned' = result.returned

\* ------------------------------------------------------------- statistics
\* geopy's geodesic(c, d).meters between two <<lat, lon>> points of the atlas,
\* in whole metres (WGS-84).  Along the equator the geodesic is the equatorial
\* radius times the difference of the longitudes, 111319 metres a degree, so
\* that two degrees are as long as a degree and a degree; elsewhere: a degree
\* of longitude on the first parallel, a degree of latitude, the diagonals
Geodesic(c, d) ==
    LET dlat == IF c[1] >= d[1] THEN c[1] - d[1] ELSE d[1] - c[1]
        dlon == IF c[2] >= d[2] THEN c[2] - d[2] ELSE d[2] - c[2]
    IN  CASE dlat = 0 /\ c[1] = 0 -> 111319 * dlon
          [] dlat = 0 /\ c[1] # 0 /\ dlon = 0 -> 0
          [] dlat = 0 /\ c[1] # 0 /\ dlon = 1 -> 111303
          [] <<dlat, dlon>> = <<1, 0>> -> 110574
          [] <<dlat, dlon>> = <<1, 1>> -> 156900
          [] <<dlat, dlon>> = <<1, 2>> -> 248576

\* one pass of the loop of compute_route_distance: the length of the first
\* edge record of (u, v) when the pair has records and that record a length,
\* the geodesic distance of the two nodes otherwise; graph.nodes[u] raises a
\* KeyError for a node the graph does not hold
SegmentLength(g, u, v) ==
    LET edge_data == GetEdgeData(g, u, v) IN
    IF edge_data # <<>> /\ edge_data[1].length # NoLength
    THEN [error |-> "none", length |-> edge_data[1].length]
    ELSE IF ~({u, v} \subseteq g.nodes) THEN [error |-> "KeyError", length |-> 0]
    ELSE [error |-> "none", length |-> Geodesic(Coord(u), Coord(v))]

RECURSIVE Sum(_)
Sum(q) == IF q = <<>> THEN 0 ELSE Head(q) + Sum(Tail(q))

\* RouteDistance with the fallback decided once for the route: the geodesic
\* distance for every segment as soon as one segment has no length
RouteDistanceByRoute(g, route) ==
    IF ~g.loaded /\ Len(route) >= 2
    THEN [error |-> "AttributeError", total_distance |-> 0, segment_distances |-> <<>>]
    ELSE LET each == [i \in 1..(Len(route) - 1) |-> SegmentLength(g, route[i], route[i + 1])]
             failed == {i \in 1..Len(each) : each[i].error # "none"}
             lacking == \E i \in 1..Len(each) :
                           LET edge_data == GetEdgeData(g, route[i], route[i + 1])
                           IN  edge_data = <<>> \/ edge_data[1].length = NoLength
             segment_distances ==
                 [i \in 1..Len(each) |->
                     IF lacking THEN Geodesic(Coord(route[i]), Coord(route[i + 1]))
                     ELSE each[i].length]
         IN  IF failed # {}
             THEN [error |-> each[Min(failed)].error, total_distance |-> 0,
                   segment_distances |-> <<>>]
             ELSE [error |-> "none", total_distance |-> Sum(segment_distances),
                   segment_distances |-> segment_distances]

\* compute_route_distance(route, route_planner): the total and the list of the
\* segments' distances, or the exception that ends it (None has no
\* get_edge_data)
RouteDistance(g, route) ==
    IF ~g.loaded /\ Len(route) >= 2
    THEN [error |-> "AttributeError", total_distance |-> 0, segment_distances |-> <<>>]
    ELSE LET each == [i \in 1..(Len(route) - 1) |-> SegmentLength(g, route[i], route[i + 1])]
             failed == {i \in 1..Len(each) : each[i].error # "none"}
             segment_distances == [i \in 1..Len(each) |-> each[i].length]
         IN  IF failed # {}
             THEN [error |-> each[Min(failed)].error, total_distance |-> 0,
                   segment_distances |-> <<>>]
             ELSE [error |-> "none", total_distance |-> Sum(segment_distances),
                   segment_distances |-> segment_distances]

\* a statistics function called on the planner: it changes nothing of it
Called(name, error, result) ==
    /\ op' = name
    /\ raised' = IF error = "none" THEN NoError ELSE Error(error)
    /\ returned' = result
    /\ previous_routes' = unique_routes
    /\ UNCHANGED <<service, config, graph, unique_routes, job_id, progress_tracker, emitted,
                   calls, filters>>

\* compute_route_distance on the k-th route of the planner
ComputeRouteDistance(k) ==
    /\ k \in 1..Len(unique_routes)
    /\ LET result == RouteDistance(graph, unique_routes[k])
       IN  Called("compute_route_distance", result.error,
                  [route |-> unique_routes[k],
                   total_distance |-> result.total_distance,
                   segment_distances |-> result.segment_distances])

\* math.degrees(math.atan2(y, x)) in thousandths of a degree, for the
\* differences of the atlas's coordinates (components from -2 to 2)
Atan2(y, x) ==
    LET ay == IF y >= 0 THEN y ELSE -y
        ax == IF x >= 0 THEN x ELSE -x
        base == CASE ay = 0 -> 0
                  [] ax = 0 -> 90000
                  [] ay = ax -> 45000
                  [] 2 * ay = ax -> 26565
                  [] ay = 2 * ax -> 63435
        half == IF x >= 0 THEN base ELSE 180000 - base
    IN  IF y >= 0 THEN half ELSE -half

\* angle_between(p, q, r) of log_turn_stats, in thousandths of a degree: the
\* angle at q between the vectors from q to p and from q to r
AngleBetween(p, q, r) ==
    LET v1 == <<p[1] - q[1], p[2] - q[2]>>
        v2 == <<r[1] - q[1], r[2] - q[2]>>
        angle1 == Atan2(v1[2], v1[1])
        angle2 == Atan2(v2[2], v2[1])
        angle == ((angle2 - angle1) + 360000) % 360000
    IN  IF angle > 180000 THEN 360000 - angle ELSE angle

\* log_turn_stats(route, route_planner): the number of turns it logs, one for
\* every interior node with an angle above 30 degrees
TurnStats(g, route) ==
    LET inner == 2..(Len(route) - 1) IN
    IF inner # {} /\ ~g.loaded THEN [error |-> "AttributeError", turns |-> 0]
    ELSE IF \E i \in inner : ~({route[i - 1], route[i], route[i + 1]} \subseteq g.nodes)
    THEN [error |-> "KeyError", turns |-> 0]
    ELSE [error |-> "none",
          turns |-> Cardinality({i \in inner :
                        AngleBetween(Coord(route[i - 1]), Coord(route[i]),
                                     Coord(route[i + 1])) > 30 * 1000})]

\* log_turn_stats on the k-th route of the planner
LogTurnStats(k) ==
    /\ k \in 1..Len(unique_routes)
    /\ LET result == TurnStats(graph, unique_routes[k])
       IN  Called("log_turn_stats", result.error,
                  [route |-> unique_routes[k], turns |-> result.turns])

\* data.get('highway') of the first record of the pair (u, v): a tag or a list
\* of tags, a lone tag standing as a list of one
Highway(u, v) ==
    IF <<u, v>> = <<1, 2>> THEN <<"primary", "residential">>
    ELSE IF u < v THEN <<"residential">>
    ELSE <<"service">>

RoadTypes == {"primary", "residential", "service"}

\* the road-type histogram of a route: for every pair of consecutive nodes
\* that has edge records one count for the tag of the first record, the first
\* element of a list of tags; a pair without records is passed over
RoadTypeHistogram(g, route) ==
    [t \in RoadTypes |->
        Cardinality({i \in 1..(Len(route) - 1) :
                        /\ GetEdgeData(g, route[i], route[i + 1]) # <<>>
                        /\ Head(Highway(route[i], route[i + 1])) = t})]

\* the turn count of a route: the interior nodes at which the direction from
\* the node before and the direction to the node after, with the coordinates
\* taken as points of the plane, are more than 30 degrees apart; the angle of
\* the two directions is what the angle at the node lacks of 180 degrees
TurnCount(route) ==
    Cardinality({i \in 2..(Len(route) - 1) :
                    180000 - AngleBetween(Coord(route[i - 1]), Coord(route[i]),
                                          Coord(route[i + 1])) > 30 * 1000})

\* the report of log_overall_routes_stats when there is no route
NoReport == <<>>

\* OverallStats with route numbers that start at 0
OverallStatsFromZero(g, routes) ==
    LET each == [i \in 1..Len(routes) |-> RouteDistance(g, routes[i])]
        failed == {i \in 1..Len(routes) : each[i].error # "none"}
        distance(i) == each[i].total_distance
        least == Min({i \in 1..Len(routes) : \A j \in 1..Len(routes) : distance(i) <= distance(j)})
        most == Min({i \in 1..Len(routes) : \A j \in 1..Len(routes) : distance(i) >= distance(j)})
    IN  IF failed # {} THEN [error |-> each[Min(failed)].error, report |-> NoReport]
        ELSE IF routes = <<>> THEN [error |-> "none", report |-> NoReport]
        ELSE [error |-> "none",
              report |-> [shortest_route |-> [route_number |-> least - 1,
                                              distance |-> distance(least)],
                          longest_route |-> [route_number |-> most - 1,
                                             distance |-> distance(most)]]]

\* log_overall_routes_stats(route_planner): the shortest and the longest route
\* it logs, each with its number; min() and max() return the first of equals
OverallStats(g, routes) ==
    LET each == [i \in 1..Len(routes) |-> RouteDistance(g, routes[i])]
        failed == {i \in 1..Len(routes) : each[i].error # "none"}
        distance(i) == each[i].total_distance
        least == Min({i \in 1..Len(routes) : \A j \in 1..Len(routes) : distance(i) <= distance(j)})
        most == Min({i \in 1..Len(routes) : \A j \in 1..Len(routes) : distance(i) >= distance(j)})
    IN  IF failed # {} THEN [error |-> each[Min(failed)].error, report |-> NoReport]
        ELSE IF routes = <<>> THEN [error |-> "none", report |-> NoReport]
        ELSE [error |-> "none",
              report |-> [shortest_route |-> [route_number |-> least,
                                              distance |-> distance(least)],
                          longest_route |-> [route_number |-> most,
                                             distance |-> distance(most)]]]

LogOverallRoutesStats ==
    LET result == OverallStats(graph, unique_routes)
    IN  Called("log_overall_routes_stats", result.error, result.report)

\* ------------------------------------------------------------- the service
\* the jobs, by the place of their uuid among those drawn
JobIds == 1..MaxJobs

\* ThreadPoolExecutor(max_workers=4)
max_workers == 4


\* the service before its first request
NoService ==
    /\ jobs_collection = {}
    /\ routes_collection = {}
    /\ executor = [j \in JobIds |-> [state |-> "none"]]
    /\ handlers = [j \in JobIds |-> [at |-> "none"]]
    /\ responses = [j \in JobIds |-> 0]

\* ------------------------------------------------------------- the sessions
\* a town with a one-way ring 1 -> 2 -> 3 -> 1, a second way round over 4 and
\* a two-way street between 2 and 4
City ==
    [loaded |-> TRUE, nodes |-> Node,
     pairs |-> {<<1, 2>>, <<1, 4>>, <<2, 3>>, <<4, 3>>, <<2, 4>>, <<4, 2>>, <<3, 1>>}]

\* the planner as RoutePlanner.__init__ leaves it
Constructed ==
    /\ networkx \in Releases
    /\ tie_order \in TieOrders
    /\ start_location \in Locations
    /\ end_location \in Locations \cup {NoLocation}
    /\ radius_km \in {0, 1}
    /\ graph = NoGraph
    /\ unique_routes = <<>>
    /\ job_id = 0
    /\ progress_tracker = FALSE
    /\ emitted = <<>>
    /\ calls = 0
    /\ filters = 0
    /\ previous_routes = <<>>
    /\ op = "__init__"
    /\ raised = NoError
    /\ returned = <<>>
    /\ NoService

Init == world = City /\ Constructed

Next ==
    \/ SetProgressTracker(1, TRUE)
    \/ \E polygon \in Polygons : FetchGraphPolygon(polygon)
    \/ ComputeRoutesStartRadius
    \/ ComputeRoutesStartEndRadius
    \/ \E polygon \in Polygons : ComputeRoutesStartPolygon(polygon)
    \/ \E polygon \in Polygons : ComputeRoutesStartEndPolygon(polygon)
    \/ \E middle_points \in MiddlePoints : FilterRoutesByPoint(middle_points)
    \/ GetRoutePolylines

Spec == Init /\ [][Next]_vars

\* ------------------------------------------------------------- filtering
\* the graphs a fetch may have left
FetchedGraphs == {GraphFromPolygon(polygon) : polygon \in Polygons}

\* the RouteSets that one computation over a fetched graph leaves on an empty
\* RouteSet, and the empty RouteSet
ComputedRouteSets ==
    {<<>>}
        \cup {TargetLoop(g, StartNode(g), Cardinality(g.nodes), 1, Locals(<<>>, 1)).unique :
                 g \in {h \in FetchedGraphs : ~Falsy(h)}}
        \cup {AppendUniqueSets(AllSimplePaths(g, StartNode(g), EndNode(g)), 1,
                               Locals(<<>>, 0)).unique :
                 g \in {h \in FetchedGraphs : ~Falsy(h) /\ end_location # NoLocation}}

\* A planner in the hands of the filter: any graph a fetch may have left, and
\* the RouteSet of up to two computations, the routes of the second behind
\* those of the first.
InitFilter ==
    /\ networkx \in Releases
    /\ tie_order \in TieOrders
    /\ world = City
    /\ start_location \in Locations
    /\ end_location \in Locations \cup {NoLocation}
    /\ radius_km = 0
    /\ graph \in FetchedGraphs
    /\ job_id = 0
    /\ progress_tracker = FALSE
    /\ unique_routes \in {first \o second : first, second \in ComputedRouteSets}
    /\ emitted = <<>>
    /\ calls = MaxCalls
    /\ filters = 0
    /\ previous_routes = <<>>
    /\ op = "__init__"
    /\ raised = NoError
    /\ returned = <<>>
    /\ NoService

NextFilter == \E middle_points \in MiddlePoints : FilterRoutesByPoint(middle_points)

SpecFilter == InitFilter /\ [][NextFilter]_vars

\* ------------------------------------------------------------- enumeration
\* the road networks over the atlas with edges on at most MaxEdges pairs
Worlds ==
    {[loaded |-> TRUE, nodes |-> Node, pairs |-> ps] :
        ps \in {q \in SUBSET Pairs : Cardinality(q) <= MaxEdges}}

\* A planner whose graph is already built, as the core receives it, and which
\* has one computation to make: the whole of a road network, with a tracker.
InitEnum ==
    /\ networkx \in Releases
    /\ tie_order = <<1, 2, 3, 4, 5>>   \* start and end lie on nodes of the graph
    /\ world \in Worlds
    /\ start_location \in Locations
    /\ end_location \in Locations \cup {NoLocation}
    /\ radius_km = 1
    /\ graph = world
    /\ unique_routes = <<>>
    /\ job_id = 1
    /\ progress_tracker = TRUE
    /\ emitted = <<>>
    /\ calls = MaxCalls - 1
    /\ filters = 0
    /\ previous_routes = <<>>
    /\ op = "__init__"
    /\ raised = NoError
    /\ returned = <<>>
    /\ NoService

\* the polygon around every node
Everywhere == [given |-> TRUE, covers |-> GridPoints]

NextEnum ==
    \/ ComputeRoutesStartRadius
    \/ ComputeRoutesStartEndRadius
    \/ ComputeRoutesStartPolygon(Everywhere)
    \/ ComputeRoutesStartEndPolygon(Everywhere)

SpecEnum == InitEnum /\ [][NextEnum]_vars

\* ------------------------------------------------------------- extraction
\* the paths a RouteSet may be given: no node at all, and up to three nodes
RouteInputs == {<<>>} \cup {p \in Injections(Node) : Len(p) <= 3}

\* A planner in the hands of the polyline extraction: any graph a fetch may
\* have left, any RouteSet of at most MaxRoutes paths.
InitPoly ==
    /\ networkx = "3.2"   \* the extraction searches no path
    /\ tie_order = <<1, 2, 3, 4, 5>>   \* and no node
    /\ world = City
    /\ start_location = Coord(1)
    /\ end_location = NoLocation
    /\ radius_km = 0
    /\ graph \in {GraphFromPolygon(polygon) : polygon \in Polygons}
    /\ unique_routes \in SeqsUpTo(RouteInputs, MaxRoutes)
    /\ job_id = 0
    /\ progress_tracker = FALSE
    /\ emitted = <<>>
    /\ calls = MaxCalls
    /\ filters = MaxFilters
    /\ previous_routes = <<>>
    /\ op = "__init__"
    /\ raised = NoError
    /\ returned = <<>>
    /\ NoService

NextPoly == GetRoutePolylines

SpecPoly == InitPoly /\ [][NextPoly]_vars

\* ------------------------------------------------------------- statistics runs
\* the road network of the statistics: the city's streets and the road from 2
\* out to 5 and back
Avenue ==
    [loaded |-> TRUE, nodes |-> Node \cup {5},
     pairs |-> City.pairs \cup {<<2, 5>>, <<5, 2>>, <<5, 3>>}]

\* the routes handed to the statistics: node sequences of up to three nodes
StatsRoutes == {p \in Injections(Node \cup {5}) : Len(p) <= 3}

\* A planner in the hands of the statistics: the avenue, a part of the city or
\* no graph, and any RouteSet of at most MaxRoutes routes.
InitStats ==
    /\ networkx = "3.2"   \* the statistics search no path
    /\ tie_order = <<1, 2, 3, 4, 5>>   \* and no node
    /\ world = Avenue
    /\ start_location = Coord(1)
    /\ end_location = NoLocation
    /\ radius_km = 0
    /\ graph \in {Avenue, NoGraph, InducedGraph(City, GridPoints \ {Coord(1)})}
    /\ unique_routes \in SeqsUpTo(StatsRoutes, MaxRoutes)
    /\ job_id = 0
    /\ progress_tracker = FALSE
    /\ emitted = <<>>
    /\ calls = MaxCalls
    /\ filters = MaxFilters
    /\ previous_routes = <<>>
    /\ op = "__init__"
    /\ raised = NoError
    /\ returned = <<>>
    /\ NoService

NextStats ==
    \/ \E k \in 1..MaxRoutes : ComputeRouteDistance(k)
    \/ \E k \in 1..MaxRoutes : LogTurnStats(k)
    \/ LogOverallRoutesStats

SpecStats == InitStats /\ [][NextStats]_vars

\* ------------------------------------------------------------- the jobs
\* middle_points of a request that names none
NoMiddlePoints == [is_list |-> TRUE, points |-> <<>>]

\* the truth value of middle_points: a list that holds a point, or another
\* value that is not null, empty or zero
Truthy(middle_points) == middle_points.points # <<>>

\* A request for the routes from the start through the whole city: the keys
\* of its JSON body, whether its start is a location (or null), its radius in
\* metres (0: none), its polygon and its middle points.  Start and end are
\* those the planners of the run are built with.
CityRequest ==
    [json |-> TRUE,
     keys |-> {"start", "polygon", "network_type"}, start |-> TRUE, radius |-> 0,
     polygon |-> Everywhere, middle_points |-> NoMiddlePoints]

\* the bodies posted to /start_job
Requests ==
    {CityRequest,
     \* a body that is no JSON
     [CityRequest EXCEPT !.json = FALSE],
     \* without a start key, and without a radius and a polygon key
     [CityRequest EXCEPT !.keys = {"polygon", "network_type"}],
     [CityRequest EXCEPT !.keys = {"start", "network_type"}],
     \* "start": null
     [CityRequest EXCEPT !.start = FALSE],
     \* a radius, and a radius of 0, instead of the polygon
     [CityRequest EXCEPT !.keys = {"start", "radius", "network_type"},
                         !.radius = 1000, !.polygon = [given |-> FALSE, covers |-> {}]],
     [CityRequest EXCEPT !.keys = {"start", "radius", "network_type"},
                         !.polygon = [given |-> FALSE, covers |-> {}]],
     \* a polygon around no node
     [CityRequest EXCEPT !.polygon = [given |-> TRUE, covers |-> {}]],
     \* middle points: one at node 3, and one without its longitude
     [CityRequest EXCEPT !.middle_points =
         [is_list |-> TRUE, points |-> << [latitude |-> 1, longitude |-> 1] >>]],
     [CityRequest EXCEPT !.middle_points =
         [is_list |-> TRUE, points |-> << [latitude |-> 1, longitude |-> Missing] >>]],
     \* middle points that are no list: null, and the point itself
     [CityRequest EXCEPT !.middle_points = [is_list |-> FALSE, points |-> <<>>]],
     [CityRequest EXCEPT !.middle_points =
         [is_list |-> FALSE, points |-> << [latitude |-> 1, longitude |-> 1] >>]]}

\* what a step of process_job leaves behind: the snapshots given to the
\* tracker so far, the exception raised, the planner's graph and RouteSet,
\* the polylines
Planned(progress, error, g, routes, polylines) ==
    [progress |-> progress, error |-> error, graph |-> g, unique_routes |-> routes,
     polylines |-> polylines]

\* the computation process_job asks of the planner it has built (lines
\* 142-155): graph None, RouteSet empty, tracker set
PlannerComputes(data) ==
    IF data.radius # 0
    THEN Planned(<<>>, FetchGraphRadiusError, NoGraph, <<>>, <<>>)
    ELSE IF ~data.polygon.given
    THEN Planned(<<>>, "ValueError", NoGraph, <<>>, <<>>)
    ELSE LET g == GraphFromPolygon(data.polygon) IN
         IF end_location = NoLocation
         THEN IF Falsy(g) THEN Planned(<<>>, "ValueError", NoGraph, <<>>, <<>>)
              ELSE LET st == TargetLoop(g, StartNode(g), Cardinality(g.nodes), 1,
                                        Locals(<<>>, 1))
                   IN  Planned(st.emitted, "none", g, st.unique, <<>>)
         ELSE IF Falsy(g) THEN Planned(<<>>, "LibraryError", NoGraph, <<>>, <<>>)
              ELSE LET all_routes == AllSimplePaths(g, StartNode(g), EndNode(g))
                       st == AppendUniqueSets(all_routes, 1,
                                              UpdateProgress(Locals(<<>>, 0), 1, 1))
                   IN  Planned(st.emitted, "none", g, st.unique, <<>>)

\* line 157: filter_routes_by_point when there are middle points,
\* get_route_polylines otherwise
PlannerExtracts(data, computed) ==
    LET g == computed.graph
        middle_points == data.middle_points
        points == middle_points.points
        failed(t) == Planned(computed.progress, t, g, computed.unique_routes, <<>>)
    IN  IF computed.error # "none" THEN computed
        ELSE IF ~Truthy(middle_points)
        THEN LET result == RoutePolylines(g, computed.unique_routes)
             IN  Planned(computed.progress, result.raised.type, g,
                         computed.unique_routes, result.returned)
        ELSE IF ~middle_points.is_list \/ InvalidPoints(points) # {}
        THEN failed("ValueError")
        ELSE LET target_nodes ==
                     [k \in 1..Len(points) |->
                         NearestNodes(g, points[k].longitude, points[k].latitude)]
                 filtered_routes == FilteredRoutes(computed.unique_routes, target_nodes)
                 result == RoutePolylines(g, filtered_routes)
             IN  Planned(computed.progress, result.raised.type, g, filtered_routes,
                         result.returned)

\* the statistics of a document that is of no route
NoStatistics == [distance |-> 0, road_types |-> [t \in RoadTypes |-> 0], turns |-> 0]

\* get_route_statistics(planner), which process_job imports from utils.stats:
\* for every route of the RouteSet its distance, its road-type histogram and
\* its turn count, and the summary of them all, the shortest and the longest
\* route; a failure (a node the graph does not hold, no graph) goes to the
\* caller
GetRouteStatistics(g, routes) ==
    LET each == [k \in 1..Len(routes) |-> RouteDistance(g, routes[k])]
        failed == {k \in 1..Len(routes) : each[k].error # "none"}
    IN  IF failed # {}
        THEN [error |-> each[Min(failed)].error, routes_stats |-> <<>>, summary |-> NoReport]
        ELSE [error |-> "none",
              routes_stats |-> [k \in 1..Len(routes) |->
                                  [distance |-> each[k].total_distance,
                                   road_types |-> RoadTypeHistogram(g, routes[k]),
                                   turns |-> TurnCount(routes[k])]],
              summary |-> OverallStats(g, routes).report]

\* lines 160-176 of process_job after the planner's work: the statistics,
\* one document for every polyline, overall_stats.  With the tracker's writes
\* before them these are the writes of the job, in order; an exception of the
\* planner or of the statistics leaves the tracker's writes alone.
JobWrites(planned) ==
    LET progress == [i \in 1..Len(planned.progress) |->
                        [kind |-> "progress",
                         timeRunning |-> planned.progress[i].timeRunning,
                         timeDuration |-> planned.progress[i].timeDuration,
                         stats |-> NoStatistics]]
    IN  IF planned.error # "none" THEN [todo |-> progress, error |-> planned.error]
        ELSE CHOOSE job \in
                 {IF stats.error # "none" THEN [todo |-> progress, error |-> stats.error]
                  ELSE [todo |-> progress
                                  \o [i \in 1..Len(planned.polylines) |->
                                         [kind |-> "route",
                                          timeRunning |-> planned.polylines[i].route_id,
                                          timeDuration |-> 0,
                                          stats |-> stats.routes_stats[i]]]
                                  \o << [kind |-> "overall_stats", timeRunning |-> 0,
                                         timeDuration |-> 0, stats |-> NoStatistics] >>,
                        error |-> "none"] :
                  stats \in {GetRouteStatistics(planned.graph, planned.unique_routes)}} :
                 TRUE

\* process_job by its effects: the writes it makes, in order, and the
\* exception that ends it, if any
ProcessJob(data) ==
    IF ~data.start THEN [todo |-> <<>>, error |-> "ValueError"]
    ELSE CHOOSE job \in
             {JobWrites(planned) :
                 planned \in {PlannerExtracts(data, computed) :
                                 computed \in {PlannerComputes(data)}}} : TRUE

\* jobs_collection.update_one({"id": id}, {"$set": progress_data}), with no
\* filter on the id
SetProgressOfAll(collection, id, snapshot) ==
    {[d EXCEPT !.timeRunning = snapshot.timeRunning,
               !.timeDuration = snapshot.timeDuration] : d \in collection}

\* jobs_collection.update_one({"id": id}, {"$set": progress_data})
SetProgress(collection, id, snapshot) ==
    {IF d.id = id
     THEN [d EXCEPT !.timeRunning = snapshot.timeRunning,
                    !.timeDuration = snapshot.timeDuration]
     ELSE d : d \in collection}

\* jobs_collection.update_one({"id": id}, {"$set": {"overall_stats": summary}})
SetOverall(collection, id) ==
    {IF d.id = id THEN [d EXCEPT !.overall_stats = TRUE] ELSE d : d \in collection}

\* the last write of schedule_job: returnCode 0, or returnCode 9 and the text
\* of the exception, and timeEnd
SetTerminal(collection, id, error) ==
    {IF d.id # id THEN d
     ELSE IF error = "none" THEN [d EXCEPT !.returnCode = 0, !.timeEnd = TRUE]
     ELSE [d EXCEPT !.returnCode = 9, !.error = error, !.timeEnd = TRUE] :
     d \in collection}

\* start_job up to its insert_one (lines 50-77): 400 for a body that is no
\* JSON, which get_json raises on, and for a body without its keys; otherwise
\* the job's document is inserted.  Jobs are numbered as their requests come.
StartJob(j, data) ==
    /\ handlers[j].at = "none"
    /\ \A i \in JobIds : i < j => handlers[i].at # "none"
    /\ UNCHANGED <<planner, routes_collection, executor>>
    /\ IF ~data.json
          \/ "start" \notin data.keys
          \/ ("radius" \notin data.keys /\ "polygon" \notin data.keys)
          \/ "network_type" \notin data.keys
       THEN /\ responses' = [responses EXCEPT ![j] = 400]
            /\ handlers' = [handlers EXCEPT ![j] = [at |-> "returned"]]
            /\ UNCHANGED jobs_collection
       ELSE /\ jobs_collection' = jobs_collection \cup
                   {[id |-> j, returnCode |-> 1, timeRunning |-> 0, timeDuration |-> 0,
                     timeEnd |-> FALSE, error |-> "none", overall_stats |-> FALSE]}
            /\ handlers' = [handlers EXCEPT ![j] = [at |-> "inserted", data |-> data]]
            /\ UNCHANGED responses

\* lines 80-82 of start_job: a new event loop, and schedule_job handed to the
\* executor
RunInExecutor(j) ==
    /\ handlers[j].at = "inserted"
    /\ executor' = [executor EXCEPT ![j] =
                        [state |-> "queued", data |-> handlers[j].data]]
    /\ handlers' = [handlers EXCEPT ![j].at = "submitted"]
    /\ UNCHANGED <<planner, jobs_collection, routes_collection, responses>>

\* line 84 of start_job: the answer 202 with the job's id
Accepted(j) ==
    /\ handlers[j].at = "submitted"
    /\ responses' = [responses EXCEPT ![j] = 202]
    /\ handlers' = [handlers EXCEPT ![j] = [at |-> "returned"]]
    /\ UNCHANGED <<planner, jobs_collection, routes_collection, executor>>

\* lines 85-87 of start_job after the insert: the event loop or the executor
\* raised, the answer is 400 and the document stays as it was inserted
StartJobFails(j) ==
    /\ handlers[j].at = "inserted"
    /\ responses' = [responses EXCEPT ![j] = 400]
    /\ handlers' = [handlers EXCEPT ![j] = [at |-> "returned"]]
    /\ UNCHANGED <<planner, jobs_collection, routes_collection, executor>>

\* a worker of the executor takes the job: schedule_job runs process_job up to
\* its first write
ScheduleJob(j) ==
    /\ executor[j].state = "queued"
    /\ Cardinality({i \in JobIds : executor[i].state = "running"}) < max_workers
    /\ \E job \in {ProcessJob(executor[j].data)} :
          executor' = [executor EXCEPT ![j] =
                           [state |-> "running", data |-> executor[j].data,
                            todo |-> job.todo, error |-> job.error]]
    /\ UNCHANGED <<planner, jobs_collection, routes_collection, handlers, responses>>

\* the next write of a running job, if it is of the kind given
NextWrite(j, kind) ==
    /\ executor[j].state = "running"
    /\ executor[j].todo # <<>>
    /\ Head(executor[j].todo).kind = kind
    /\ executor' = [executor EXCEPT ![j].todo = Tail(@)]
    /\ UNCHANGED <<planner, handlers, responses>>

\* mongo_progress_tracker(progress_data)
MongoProgressTracker(j) ==
    /\ NextWrite(j, "progress")
    /\ jobs_collection' = SetProgress(jobs_collection, j, Head(executor[j].todo))
    /\ UNCHANGED routes_collection

\* routes_collection.insert_one of the loop over the routes
InsertRoute(j) ==
    /\ NextWrite(j, "route")
    /\ routes_collection' = routes_collection \cup
           {[job_id |-> j, route_id |-> Head(executor[j].todo).timeRunning,
             stats |-> Head(executor[j].todo).stats]}
    /\ UNCHANGED jobs_collection

\* the update that stores overall_stats
StoreOverallStats(j) ==
    /\ NextWrite(j, "overall_stats")
    /\ jobs_collection' = SetOverall(jobs_collection, j)
    /\ UNCHANGED routes_collection

\* schedule_job after process_job: the terminal write
CompleteJob(j) ==
    /\ executor[j].state = "running"
    /\ executor[j].todo = <<>>
    /\ jobs_collection' = SetTerminal(jobs_collection, j, executor[j].error)
    /\ executor' = [executor EXCEPT ![j].state = "done"]
    /\ UNCHANGED <<planner, routes_collection, handlers, responses>>

\* the writes of the worker that runs job j, from the first to the terminal one
Work(j) ==
    \/ MongoProgressTracker(j)
    \/ InsertRoute(j)
    \/ StoreOverallStats(j)
    \/ CompleteJob(j)

\* The service with the planners' start and end fixed for the run and no job
\* asked yet.
InitJobs ==
    /\ networkx \in Releases
    /\ tie_order = <<1, 2, 3, 4, 5>>   \* every place of a request lies on a node
    /\ world = City
    /\ start_location \in Locations
    /\ end_location \in Locations \cup {NoLocation}
    /\ radius_km = 1
    /\ graph = NoGraph
    /\ unique_routes = <<>>
    /\ job_id = 1
    /\ progress_tracker = TRUE
    /\ emitted = <<>>
    /\ calls = 0
    /\ filters = 0
    /\ previous_routes = <<>>
    /\ op = "__init__"
    /\ raised = NoError
    /\ returned = <<>>
    /\ NoService

NextJobs ==
    \/ \E j \in JobIds, data \in Requests : StartJob(j, data)
    \/ \E j \in JobIds : RunInExecutor(j)
    \/ \E j \in JobIds : Accepted(j)
    \/ \E j \in JobIds : StartJobFails(j)
    \/ \E j \in JobIds : ScheduleJob(j)
    \/ \E j \in JobIds : MongoProgressTracker(j)
    \/ \E j \in JobIds : InsertRoute(j)
    \/ \E j \in JobIds : StoreOverallStats(j)
    \/ \E j \in JobIds : CompleteJob(j)

\* the executor's threads are scheduled fairly: a worker that runs a job takes
\* its next step
SpecJobs == InitJobs /\ [][NextJobs]_vars /\ \A j \in JobIds : WF_vars(Work(j))

\* ------------------------------------------------------------- properties
ModeA == {"compute_routes_start_radius", "compute_routes_start_polygon"}
ModeB == {"compute_routes_start_end_radius", "compute_routes_start_end_polygon"}

\* a computation of the given mode has just ended without an exception
Computed(mode) == op \in mode /\ raised = NoError

IsSimple(route) ==
    \A i, j \in 1..Len(route) : i # j => route[i] # route[j]

FollowsEdges(g, route) ==
    \A i \in 1..(Len(route) - 1) : <<route[i], route[i + 1]>> \in g.pairs

NodeSequences == Injections(Node) \ {<<>>}

\* the simple directed paths of g from s to t, by their definition
SimplePaths(g, s, t) ==
    {p \in NodeSequences :
        /\ p[1] = s
        /\ p[Len(p)] = t
        /\ Range(p) \subseteq g.nodes
        /\ FollowsEdges(g, p)}

\* the routes of Mode A in the order the enumeration yields them
Discovered(g, s) ==
    Flatten([k \in 1..Len(NodeSeq(g)) |->
                IF NodeSeq(g)[k] = s THEN <<>> ELSE AllSimplePaths(g, s, NodeSeq(g)[k])])

\* the place of the first occurrence of x in the sequence q
FirstIndex(q, x) == Min({i \in 1..Len(q) : q[i] = x})

\* C1: every route a compute_routes_* operation leaves in unique_routes is a
\* simple path that starts at the start node and follows edges of the graph.
C1_RoutesAreSimplePathsFromStart ==
    Computed(ModeA \cup ModeB) =>
        \A k \in 1..Len(unique_routes) :
            /\ Len(unique_routes[k]) >= 1
            /\ IsSimple(unique_routes[k])
            /\ unique_routes[k][1] = StartNode(graph)
            /\ FollowsEdges(graph, unique_routes[k])

\* C2: after a Mode A computation every simple path from the start node to
\* every other node is a route; a Mode A computation raises nothing but the
\* errors of its preconditions, so a target without a path stops nothing.
C2_ModeAComplete ==
    /\ Computed(ModeA) =>
          \A t \in graph.nodes \ {StartNode(graph)} :
              SimplePaths(graph, StartNode(graph), t) \subseteq Range(unique_routes)
    /\ op \in ModeA => raised.type \in {"none", "ValueError", "NameError"}

\* a Mode A computation with a target that no path reaches and a target that
\* two paths reach
C2_Witness ==
    /\ Computed(ModeA)
    /\ \E t \in graph.nodes \ {StartNode(graph)} :
          SimplePaths(graph, StartNode(graph), t) = {}
    /\ \E t \in graph.nodes \ {StartNode(graph)} :
          Cardinality(SimplePaths(graph, StartNode(graph), t)) >= 2

\* C3 as stated: after a Mode B computation on an empty RouteSet every simple
\* path from the start node to the end node is a route.
C3_EverySimplePathIsARoute ==
    Computed(ModeB) =>
        SimplePaths(graph, StartNode(graph), EndNode(graph)) \subseteq Range(unique_routes)

\* C3 (amended): after a Mode B computation on an empty RouteSet every route
\* is a simple path from the start node to the end node, every such path of
\* one edge or more has a route with the same node set, and there is no route
\* when there is no path.  When the start node is the end node the RouteSet
\* is empty on networkx up to 3.1 and holds the one route [s] from 3.2 on.
C3_ModeBCompleteUpToNodeSet ==
    Computed(ModeB) =>
        LET s == StartNode(graph)
            paths == SimplePaths(graph, s, EndNode(graph))
        IN  /\ Range(unique_routes) \subseteq paths
            /\ \A p \in paths :
                  Len(p) >= 2 => \E r \in Range(unique_routes) : Range(r) = Range(p)
            /\ paths = {} => unique_routes = <<>>
            /\ s = EndNode(graph) =>
                  unique_routes = IF networkx = "3.1" THEN <<>> ELSE << <<s>> >>

\* a Mode B computation that kept one of two paths over the same nodes, in a
\* graph where another pair of nodes has no path
C3_Witness ==
    /\ Computed(ModeB)
    /\ \E p \in SimplePaths(graph, StartNode(graph), EndNode(graph)) :
          p \notin Range(unique_routes)
    /\ Len(unique_routes) >= 2

\* C4: after a Mode A computation on an empty RouteSet no two routes are the
\* same node sequence, and the routes stand in the order of their first
\* discovery.
C4_SequenceDedup ==
    Computed(ModeA) =>
        LET found == Discovered(graph, StartNode(graph)) IN
        /\ \A k, l \in 1..Len(unique_routes) :
              k # l => unique_routes[k] # unique_routes[l]
        /\ Range(unique_routes) \subseteq Range(found)
        /\ \A k, l \in 1..Len(unique_routes) :
              k < l => FirstIndex(found, unique_routes[k]) < FirstIndex(found, unique_routes[l])

\* a Mode A computation that found a node sequence twice, over parallel edges
C4_Witness ==
    /\ Computed(ModeA)
    /\ Len(unique_routes) >= 2
    /\ Len(Discovered(graph, StartNode(graph))) > Len(unique_routes)

\* C5: after a Mode B computation on an empty RouteSet no two routes have the
\* same node set, every route is the first discovered path of its node set,
\* and the routes stand in the order of their first discovery.
C5_NodeSetDedup ==
    Computed(ModeB) =>
        LET found == AllSimplePaths(graph, StartNode(graph), EndNode(graph)) IN
        /\ \A k, l \in 1..Len(unique_routes) :
              k # l => Range(unique_routes[k]) # Range(unique_routes[l])
        /\ Range(unique_routes) \subseteq Range(found)
        /\ \A k \in 1..Len(unique_routes) :
              \A j \in 1..(FirstIndex(found, unique_routes[k]) - 1) :
                  Range(found[j]) # Range(unique_routes[k])
        /\ \A k, l \in 1..Len(unique_routes) :
              k < l => FirstIndex(found, unique_routes[k]) < FirstIndex(found, unique_routes[l])

\* a Mode B computation that found two different sequences over one node set
\* and kept a route behind the one it kept of them
C5_Witness ==
    /\ Computed(ModeB)
    /\ LET found == AllSimplePaths(graph, StartNode(graph), EndNode(graph)) IN
       \E i, j \in 1..Len(found) :
          /\ i < j
          /\ found[i] # found[j]
          /\ Range(found[i]) = Range(found[j])
          /\ \E k \in 1..Len(unique_routes) :
                FirstIndex(found, unique_routes[k]) > j

\* the node set the waypoints of a list resolve to
Resolved(points) ==
    {NearestNodes(graph, points[i].longitude, points[i].latitude) : i \in 1..Len(points)}

AllWellFormed(middle_points) ==
    /\ middle_points.is_list
    /\ \A i \in 1..Len(middle_points.points) : WellFormed(middle_points.points[i])

\* C6: filter_routes_by_point with well-formed waypoints that resolve to the
\* node set W leaves exactly the routes that hold every node of W, in their
\* order; every route it leaves holds W, and an empty list leaves every route.
C6_FilterKeepsRoutesThroughAllWaypoints ==
    [][\A mp \in MiddlePoints :
          (/\ op' = "filter_routes_by_point"
           /\ AllWellFormed(mp)
           /\ (mp.points = <<>> \/ ~Falsy(graph))
           /\ FilterRoutesByPoint(mp))
          => /\ unique_routes' =
                    SelectSeq(unique_routes,
                              LAMBDA route : Resolved(mp.points) \subseteq Range(route))
             /\ \A k \in 1..Len(unique_routes') :
                    Resolved(mp.points) \subseteq Range(unique_routes'[k])
             /\ mp.points = <<>> => unique_routes' = unique_routes]_vars

\* a filter that dropped a route and left two, the second of which it found
\* behind a route that it dropped
C6_Witness ==
    /\ op = "filter_routes_by_point"
    /\ raised = NoError
    /\ Len(unique_routes) >= 2
    /\ Len(unique_routes) < Len(previous_routes)
    /\ unique_routes[2] # previous_routes[2]

\* C7: filter_routes_by_point with an argument that is no list, or a list with
\* an entry that lacks its latitude or its longitude, raises a ValueError that
\* names the first such entry, and leaves unique_routes as it was.
C7_MalformedWaypointsChangeNothing ==
    [][\A mp \in MiddlePoints :
          (/\ op' = "filter_routes_by_point"
           /\ ~AllWellFormed(mp)
           /\ FilterRoutesByPoint(mp))
          => /\ raised'.type = "ValueError"
             /\ unique_routes' = unique_routes
             /\ returned' = <<>>
             /\ mp.is_list =>
                    /\ raised'.waypoint \in 1..Len(mp.points)
                    /\ ~WellFormed(mp.points[raised'.waypoint])
                    /\ \A i \in 1..(raised'.waypoint - 1) : WellFormed(mp.points[i])]_vars

\* a filter that rejected the second entry of its list, after a well-formed
\* first entry that some route does not hold, and dropped no route
C7_Witness ==
    /\ op = "filter_routes_by_point"
    /\ raised.type = "ValueError"
    /\ raised.waypoint = 2
    /\ Len(unique_routes) >= 2
    /\ unique_routes = previous_routes
    /\ ~Falsy(graph)
    /\ \E n \in graph.nodes : \E k \in 1..Len(unique_routes) : n \notin Range(unique_routes[k])

TrackerSet == job_id # 0 /\ progress_tracker

\* C8: with a tracker set, a Mode A computation reports once for every node
\* but the start node, a Mode B computation once; the completed counts of the
\* reports ascend strictly and the totals never fall.
C8_ProgressOncePerUnit ==
    /\ (Computed(ModeA) /\ TrackerSet) =>
          Len(emitted) = Cardinality(graph.nodes \ {StartNode(graph)})
    /\ (Computed(ModeB) /\ TrackerSet) => Len(emitted) = 1
    /\ \A i \in 1..(Len(emitted) - 1) :
          /\ emitted[i].timeRunning < emitted[i + 1].timeRunning
          /\ emitted[i].timeDuration <= emitted[i + 1].timeDuration

\* a Mode A computation with a tracker and two targets, one of them without a
\* path
C8_Witness ==
    /\ Computed(ModeA)
    /\ TrackerSet
    /\ Len(emitted) >= 2
    /\ \E t \in graph.nodes \ {StartNode(graph)} :
          SimplePaths(graph, StartNode(graph), t) = {}

\* a polyline without the points that equal their predecessor
Collapsed(coords) ==
    LET keep == {i \in 1..Len(coords) : i = 1 \/ coords[i] # coords[i - 1]}
        order == SortedSeq(keep)
    IN  [k \in 1..Len(order) |-> coords[order[k]]]

Swapped(points) == [i \in 1..Len(points) |-> <<points[i][2], points[i][1]>>]

\* the segments C9 allows for the pair (u, v): the geometry of an edge record
\* that has one, and the two node coordinates when no record has one
AnyRecordSegments(g, u, v) ==
    LET records == GetEdgeData(g, u, v)
        curved == {k \in 1..Len(records) : records[k].geometry # NoGeometry}
    IN  IF curved # {} THEN {Swapped(records[k].geometry) : k \in curved}
        ELSE {<< Coord(u), Coord(v) >>}

\* the segment of the pair (u, v) by its first edge record alone
FirstRecordSegments(g, u, v) ==
    LET records == GetEdgeData(g, u, v)
    IN  IF records # <<>> /\ records[1].geometry # NoGeometry
        THEN {Swapped(records[1].geometry)}
        ELSE {<< Coord(u), Coord(v) >>}

RECURSIVE Joined(_, _, _, _)
\* the concatenations of one segment of Segments for every pair of the route
\* from its i-th node on
Joined(Segments(_, _, _), g, route, i) ==
    IF i >= Len(route) THEN {<<>>}
    ELSE {segment \o rest : segment \in Segments(g, route[i], route[i + 1]),
                            rest \in Joined(Segments, g, route, i + 1)}

\* get_route_polylines, or the filter that ends with it, has returned
Extracted == op \in {"get_route_polylines", "filter_routes_by_point"} /\ raised = NoError

\* the polylines returned are those of the routes, in order and numbered from
\* 1, every one the collapsed concatenation of segments that Segments allows
PolylinesBy(Segments(_, _, _)) ==
    /\ Len(returned) = Len(unique_routes)
    /\ \A k \in 1..Len(returned) :
          /\ returned[k].route_id = k
          /\ returned[k].polyline \in
                {Collapsed(coords) : coords \in Joined(Segments, graph, unique_routes[k], 1)}
          /\ \A i \in 1..(Len(returned[k].polyline) - 1) :
                returned[k].polyline[i] # returned[k].polyline[i + 1]

\* C9 as stated: the polyline of a route takes, for every pair, the geometry
\* of an edge record of the pair when a record with a geometry exists.
C9_GeometryOfAnyRecord == Extracted => PolylinesBy(AnyRecordSegments)

\* C9 (amended): when get_route_polylines returns, the polyline of every route
\* takes, for every pair, the geometry of the first edge record of the pair
\* when that record has one, its points turned to (lat, lon), and the
\* coordinates of the two nodes otherwise; the segments are joined in path
\* order and every point equal to its predecessor is dropped; route_id is the
\* place of the route, from 1.
C9_GeometryOfFirstRecord == Extracted => PolylinesBy(FirstRecordSegments)

\* an extraction of a route with a straight pair and a curved pair, whose
\* polyline lost a repeated point
C9_Witness ==
    /\ op = "get_route_polylines"
    /\ raised = NoError
    /\ \E k \in 1..Len(unique_routes) :
          LET route == unique_routes[k] IN
          /\ \E i \in 1..(Len(route) - 1) :
                HasGeometry(GetEdgeData(graph, route[i], route[i + 1]))
          /\ \E i \in 1..(Len(route) - 1) :
                ~HasGeometry(GetEdgeData(graph, route[i], route[i + 1]))
          /\ Len(returned[k].polyline) < Len(PathCoords(graph, route))

\* C10: get_route_polylines raises, and returns nothing, when the graph is
\* missing and when a route has an empty path; no polyline it returns is empty.
C10_DegenerateInputsFail ==
    op = "get_route_polylines" =>
        /\ (Falsy(graph) \/ \E k \in 1..Len(unique_routes) : unique_routes[k] = <<>>)
              => (raised # NoError /\ returned = <<>>)
        /\ \A k \in 1..Len(returned) : returned[k].polyline # <<>>

\* an extraction over a loaded graph that a route with an empty path, behind
\* a route with a polyline, has stopped
C10_Witness ==
    /\ op = "get_route_polylines"
    /\ ~Falsy(graph)
    /\ Len(unique_routes) = 2
    /\ Len(unique_routes[1]) >= 2
    /\ unique_routes[2] = <<>>
    /\ raised.type = "IndexError"

\* an extraction without a graph
C10_WitnessNoGraph ==
    /\ op = "get_route_polylines"
    /\ Falsy(graph)
    /\ raised.type = "ValueError"

\* the distance C11 gives the pair (u, v): the length attribute of its edge
\* record when there is one, the geodesic distance of its nodes otherwise
ClaimedSegment(g, u, v) ==
    IF <<u, v>> \in g.pairs /\ EdgeRecords(u, v)[1].length # NoLength
    THEN EdgeRecords(u, v)[1].length
    ELSE Geodesic(Coord(u), Coord(v))

ClaimedDistance(g, route) ==
    Sum([i \in 1..(Len(route) - 1) |-> ClaimedSegment(g, route[i], route[i + 1])])

\* compute_route_distance has been called with a route of the graph
Measured ==
    /\ op = "compute_route_distance"
    /\ graph.loaded
    /\ returned.route # <<>>
    /\ Range(returned.route) \subseteq graph.nodes

\* C11: compute_route_distance of a route of the graph returns one distance
\* for every consecutive pair, the length of the pair's edge record or, pair
\* by pair, the geodesic distance of its nodes, and their sum as the total;
\* two segments of lengths 100 and 150 make a total of 250.
C11_DistanceIsSumOfSegments ==
    Measured =>
        LET route == returned.route
            segments == returned.segment_distances
        IN  /\ raised = NoError
            /\ Len(segments) = Len(route) - 1
            /\ \A i \in 1..Len(segments) :
                  segments[i] = ClaimedSegment(graph, route[i], route[i + 1])
            /\ returned.total_distance = Sum(segments)
            /\ (Len(route) = 3
                  /\ <<route[1], route[2]>> \in graph.pairs
                  /\ <<route[2], route[3]>> \in graph.pairs
                  /\ EdgeRecords(route[1], route[2])[1].length = 100
                  /\ EdgeRecords(route[2], route[3])[1].length = 150)
                => returned.total_distance = 250

\* a distance of three nodes with an edge length for the first pair and the
\* geodesic distance for the second
C11_Witness ==
    /\ Measured
    /\ raised = NoError
    /\ Len(returned.route) = 3
    /\ returned.segment_distances[1] = 100
    /\ returned.segment_distances[2] =
          Geodesic(Coord(returned.route[2]), Coord(returned.route[3]))
    /\ returned.total_distance > 110000

\* the direction from p to q and the direction from q to r differ by more
\* than 30 degrees: the cosine of their angle is below that of 30 degrees
Bends(p, q, r) ==
    LET d1 == <<q[1] - p[1], q[2] - p[2]>>
        d2 == <<r[1] - q[1], r[2] - q[2]>>
        dot == d1[1] * d2[1] + d1[2] * d2[2]
        n1 == d1[1] * d1[1] + d1[2] * d1[2]
        n2 == d2[1] * d2[1] + d2[2] * d2[2]
    IN  dot <= 0 \/ 4 * dot * dot < 3 * n1 * n2

\* C12: log_turn_stats counts the interior nodes of the route at which the
\* incoming and the outgoing direction differ by more than 30 degrees: none
\* for a node on the straight line between its neighbours, one for a bend of
\* 90 degrees; the first and the last node never count.
C12_TurnsAreChangesOfDirection ==
    (op = "log_turn_stats" /\ raised = NoError) =>
        LET route == returned.route IN
        returned.turns =
            Cardinality({i \in 2..(Len(route) - 1) :
                            Bends(Coord(route[i - 1]), Coord(route[i]), Coord(route[i + 1]))})

\* log_overall_routes_stats has run over routes of the graph
Summed ==
    /\ op = "log_overall_routes_stats"
    /\ graph.loaded
    /\ \A k \in 1..Len(unique_routes) : Range(unique_routes[k]) \subseteq graph.nodes

\* C13: over a RouteSet that is not empty, log_overall_routes_stats reports
\* as the shortest route a route of the least distance and as the longest a
\* route of the greatest, each with its place in the RouteSet, from 1, and
\* its distance; over an empty RouteSet it reports nothing and raises nothing.
C13_ShortestAndLongest ==
    /\ (op = "log_overall_routes_stats" /\ unique_routes = <<>>)
          => (raised = NoError /\ returned = NoReport)
    /\ (Summed /\ unique_routes # <<>>) =>
          LET distance(k) == ClaimedDistance(graph, unique_routes[k])
              ids == 1..Len(unique_routes)
          IN  /\ raised = NoError
              /\ returned # NoReport
              /\ returned.shortest_route.route_number \in ids
              /\ returned.longest_route.route_number \in ids
              /\ returned.shortest_route.distance = distance(returned.shortest_route.route_number)
              /\ returned.longest_route.distance = distance(returned.longest_route.route_number)
              /\ \A k \in ids :
                    /\ returned.shortest_route.distance <= distance(k)
                    /\ distance(k) <= returned.longest_route.distance

\* a report over two routes of which the second is the shorter
C13_Witness ==
    /\ Summed
    /\ raised = NoError
    /\ Len(unique_routes) = 2
    /\ \A k \in 1..2 : Len(unique_routes[k]) >= 2
    /\ returned # NoReport
    /\ returned.shortest_route.route_number = 2
    /\ returned.longest_route.route_number = 1
    /\ returned.shortest_route.distance < returned.longest_route.distance

\* a report over no route
C13_WitnessEmpty ==
    /\ op = "log_overall_routes_stats"
    /\ unique_routes = <<>>
    /\ returned = NoReport

\* C14: after a compute_routes_* call the RouteSet holds routes that this
\* call discovered and no others, without a duplicate under the policy of the
\* call: no route of an earlier call is carried over.
C14_RouteSetOfTheLatestCall ==
    /\ Computed(ModeA) =>
          /\ Range(unique_routes) \subseteq Range(Discovered(graph, StartNode(graph)))
          /\ \A k, l \in 1..Len(unique_routes) :
                k # l => unique_routes[k] # unique_routes[l]
    /\ Computed(ModeB) =>
          /\ Range(unique_routes) \subseteq
                Range(AllSimplePaths(graph, StartNode(graph), EndNode(graph)))
          /\ \A k, l \in 1..Len(unique_routes) :
                k # l => Range(unique_routes[k]) # Range(unique_routes[l])

\* C15: with a tracker set, every snapshot of a computation has a completed
\* count that is at most its total and is the number of the units finished so
\* far, and the last snapshot of a Mode A computation over two or more nodes
\* has a completed count equal to its total.
C15_CompletedCountsUnits ==
    (TrackerSet /\ Computed(ModeA \cup ModeB)) =>
        /\ \A i \in 1..Len(emitted) :
              /\ emitted[i].timeRunning <= emitted[i].timeDuration
              /\ emitted[i].timeRunning = i
        /\ (op \in ModeA /\ Cardinality(graph.nodes) >= 2) =>
              /\ emitted # <<>>
              /\ emitted[Len(emitted)].timeRunning = emitted[Len(emitted)].timeDuration

\* the documents of job j in job_status
Documents(collection, j) == {d \in collection : d.id = j}

\* the route_ids of the documents of job j in result_routes
RouteIds(j) == {r.route_id : r \in {x \in routes_collection : x.job_id = j}}

\* the paths that a job's request asks for, by their definition: the simple
\* paths from the start node to every other node of the polygon's graph, or
\* those to the end node; the path of one node from a node to itself is one
\* that networkx up to 3.1 does not count
RequestedPaths(data) ==
    LET g == InducedGraph(world, data.polygon.covers)
        s == StartNode(g)
    IN  IF end_location = NoLocation
        THEN UNION {SimplePaths(g, s, t) : t \in g.nodes \ {s}}
        ELSE {p \in SimplePaths(g, s, EndNode(g)) : Len(p) >= 2 \/ networkx # "3.1"}

\* those of the requested paths that pass every middle point of the request
PathsThroughMiddlePoints(data) ==
    LET g == InducedGraph(world, data.polygon.covers)
        points == data.middle_points.points
    IN  {p \in RequestedPaths(data) :
            \A k \in 1..Len(points) :
                NearestNodes(g, points[k].longitude, points[k].latitude) \in Range(p)}

\* the number of routes a job has to store: one for every such path, and one
\* for every node set of such paths when the request names an end
RoutesToStore(data) ==
    IF end_location = NoLocation THEN Cardinality(PathsThroughMiddlePoints(data))
    ELSE Cardinality({Range(p) : p \in PathsThroughMiddlePoints(data)})

\* the exception a request makes process_job raise, told from the request:
\* no start; a radius, which no fetch survives; neither radius nor polygon; a
\* polygon around no node; middle points that are no list of well-formed
\* points; a route of one node, which has no polyline
ExceptionOfRequest(data) ==
    LET middle_points == data.middle_points IN
    IF ~data.start THEN "ValueError"
    ELSE IF data.radius # 0 THEN "NameError"
    ELSE IF ~data.polygon.given THEN "ValueError"
    ELSE IF \A n \in world.nodes : Coord(n) \notin data.polygon.covers
    THEN IF end_location = NoLocation THEN "ValueError" ELSE "LibraryError"
    ELSE IF /\ middle_points.points # <<>>
            /\ \/ ~middle_points.is_list
               \/ \E k \in 1..Len(middle_points.points) :
                     Missing \in {middle_points.points[k].latitude,
                                  middle_points.points[k].longitude}
    THEN "ValueError"
    ELSE IF \E p \in PathsThroughMiddlePoints(data) : Len(p) = 1 THEN "IndexError"
    ELSE "none"

\* the documents of job_status agree with the jobs: one document at most for
\* a job, and one for every accepted job; route documents of running and of
\* done jobs alone, one for a route_id; returnCode 1 and no timeEnd until the
\* job is done, and then timeEnd with returnCode 0 when the request makes
\* process_job raise nothing, with overall_stats and a document for every
\* route to store, and returnCode 9 with the text of the exception when it
\* makes it raise, without overall_stats and without a route document
JobDocumentsAgree ==
    \A j \in JobIds :
        /\ Cardinality(Documents(jobs_collection, j)) <= 1
        /\ responses[j] = 202 => Documents(jobs_collection, j) # {}
        /\ RouteIds(j) # {} => executor[j].state \in {"running", "done"}
        /\ Cardinality({r \in routes_collection : r.job_id = j}) = Cardinality(RouteIds(j))
        /\ executor[j].state # "none" => Documents(jobs_collection, j) # {}
        /\ \A d \in Documents(jobs_collection, j) :
              \A task \in {executor[j]} :
                  /\ task.state # "done" => (d.returnCode = 1 /\ ~d.timeEnd)
                  /\ task.state = "done" =>
                        \A exception \in {ExceptionOfRequest(task.data)} :
                            /\ d.timeEnd
                            /\ d.returnCode = IF exception = "none" THEN 0 ELSE 9
                            /\ d.returnCode = 0 =>
                                  /\ d.error = "none"
                                  /\ d.overall_stats
                                  /\ RouteIds(j) = 1..RoutesToStore(task.data)
                            /\ d.returnCode = 9 =>
                                  /\ d.error = exception
                                  /\ ~d.overall_stats
                                  /\ RouteIds(j) = {}

\* a step changes the documents of one job at most, and it is a step of that
\* job's request or of its worker; a document is created with returnCode 1
\* and without timeEnd, and after that the job's worker alone writes to it; a
\* document with its timeEnd changes no more, so that the tracker's writes
\* come before the terminal write, which is the only one; and the returnCode
\* changes in the terminal write alone
JobWritesApart ==
    \A j \in JobIds :
        LET before == Documents(jobs_collection, j)
            after == Documents(jobs_collection', j)
            others == \A i \in JobIds \ {j} :
                          executor'[i] = executor[i] /\ handlers'[i] = handlers[i]
            written == \/ before # after
                       \/ \E r \in routes_collection' \ routes_collection : r.job_id = j
        IN  /\ written => others
            /\ (written /\ before = {}) =>
                  /\ handlers'[j] # handlers[j]
                  /\ \A d \in after : d.returnCode = 1 /\ ~d.timeEnd
            /\ (written /\ before # {}) => executor'[j] # executor[j]
            /\ (\E d \in before : d.timeEnd) => after = before
            /\ (\E d \in before : \E e \in after : d.returnCode # e.returnCode)
                  => (executor[j].state = "running" /\ executor'[j].state = "done")

\* C16: an accepted job has its document in job_status, created with
\* returnCode 1; a job that a worker runs reaches one terminal state, with
\* timeEnd: returnCode 0 only after process_job has written every route
\* document and overall_stats without raising, returnCode 9 and the text of
\* the exception when it raised; the tracker's writes touch the document of
\* their job alone, never its returnCode, and come before the terminal write;
\* jobs that run side by side leave each other's documents alone.
C16_JobLifecycle ==
    /\ []JobDocumentsAgree
    /\ [][JobWritesApart]_vars
    /\ \A j \in JobIds :
          (executor[j].state = "running")
              ~> (\E d \in Documents(jobs_collection, j) : d.timeEnd)

\* two jobs, both done, the second before its request is answered: the first,
\* whose middle_points are null, with returnCode 0 and its route documents,
\* the second with returnCode 9 after its tracker had reported progress
C16_Witness ==
    /\ \A j \in JobIds : executor[j].state = "done"
    /\ ~executor[1].data.middle_points.is_list
    /\ responses[1] = 202
    /\ responses[2] = 0
    /\ \E d \in Documents(jobs_collection, 1) :
          d.returnCode = 0 /\ d.timeRunning > 0 /\ d.overall_stats
    /\ Cardinality(RouteIds(1)) >= 2
    /\ \E d \in Documents(jobs_collection, 2) :
          d.returnCode = 9 /\ d.error = "ValueError" /\ d.timeRunning > 0
    /\ RouteIds(2) = {}

====
